---- MODULE Spec2Model ----
(***************************************************************************)
(* Vibrato Viewer: the playback session of App.tsx (upload, analysis run,  *)
(* audio element, animation-frame clock, progress-bar drag) and the        *)
(* windowed renderer of ScrollingVibratoGraph.                             *)
(*                                                                         *)
(* Time is counted in whole units.  A file is identified by the duration   *)
(* of its audio, and its object URL by the file.  React commits the state  *)
(* updates of one handler together and then runs the effects whose         *)
(* dependencies changed; a handler and that commit are one step here.      *)
(***************************************************************************)
EXTENDS Integers, Sequences, FiniteSets, TLC

\* ---------------------------------------------------------------- bounds
\* Longest audio file, in time units.
MaxDuration == 3
\* Width of the progress bar, in mouse positions.
BarWidth == 4
\* Longest audio handed to the renderer, in time units.
MaxTime == 12
\* Frames produced by the client-side generator (numFrames, scaled down).
MockFrames == 6
\* Width of the three canvases, in pixels.
CanvasWidth == 480
\* Longest slice handed to calculateCorrelation, and the largest magnitude of
\* its entries.
MaxSlice == 3
MaxValue == 2
\* An entry whose significand is long enough for the sum of three of it to be
\* rounded (as 0.1 + 0.1 + 0.1 is in JavaScript).
LongValue == 11
\* Bits of the significand of a number (53 in JavaScript, scaled down);
\* arithmetic rounds to nearest, ties to even, as IEEE 754 does.
MantissaBits == 5

VARIABLES
    \* useState of App
    audioFile, audioUrl, analysisData, isPlaying, currentTime, duration,
    isAnalyzing, isDragging,
    \* the browser side
    animationFrames,   \* pending requestAnimationFrame callbacks, oldest first
    listeners,         \* the handlers attached to the audio element (0 or 1 closure)
    audio,             \* the audio element behind audioRef
    pendingRuns,       \* analyzeAudio calls whose fetch has not settled
    alerts, fetches,   \* calls of alert() and fetch() so far
    \* ScrollingVibratoGraph
    windowSize, tick,
    contexts,          \* the panels whose canvas gives a 2D context
    canvas,            \* what each panel's canvas shows
    \* a call of calculateCorrelation: its arguments and what it gave
    pitchSlice, ampSlice, corr,
    \* history, written by the actions and read only by the properties
    lastHandler, timeChanged, drag, outcome

vars == <<audioFile, audioUrl, analysisData, isPlaying, currentTime, duration,
          isAnalyzing, isDragging, animationFrames, listeners, audio,
          pendingRuns, alerts, fetches, windowSize, tick, contexts, canvas,
          pitchSlice, ampSlice, corr,
          lastHandler, timeChanged, drag, outcome>>

\* F applied to the value of e, which is computed once.
Once(e, F(_)) == CHOOSE r \in {F(x) : x \in {e}} : TRUE

Min(a, b) == IF a < b THEN a ELSE b
Max(a, b) == IF a > b THEN a ELSE b

\* ------------------------------------------------------------ analysis data
NoFile == 0
Files == 1..MaxDuration

\* times of N frames, hop apart, the first at `first`; indices from 0.
Frames(N, hop, first) == [i \in 0..(N - 1) |-> first + i * hop]

\* One cycle of a vibrato of depth 30 cents, eight frames long.
Wave == <<0, 21, 30, 21, 0, -21, -30, -21>>
Sine(i) == Wave[(i % 8) + 1]

AnalysisData(src, t, p, a, pk, tr) ==
    [source |-> src, file |-> NoFile, times |-> t, pitchDeviation |-> p,
     amplitudeDeviation |-> a, peaks |-> pk, troughs |-> tr,
     oscillations |-> Len(pk)]

NoData == AnalysisData("none", <<>>, <<>>, <<>>, <<>>, <<>>)

\* Whether pd[i] > pd[j] as JavaScript evaluates it: a comparison with an
\* element that is not there yet (undefined) is false.
Greater(pd, i, j) == i \in DOMAIN pd /\ j \in DOMAIN pd /\ pd[i] > pd[j]
Less(pd, i, j) == i \in DOMAIN pd /\ j \in DOMAIN pd /\ pd[i] < pd[j]
Abs(x) == IF x < 0 THEN -x ELSE x

MockPitch(i) == Sine(i)
MockAmplitudeDeviation(i) == (Sine(i) * 5) \div 30 + (3 * Sine(i + 1)) \div 30

\* The loop of generateMockData after iterations 0..i-1: the arrays pushed so
\* far and the extrema found so far.  Iteration i pushes frame i and then
\* compares it with its neighbours in the array as it is at that moment.
MockScan_PreviousOnly(i) ==
    LET pd == [j \in 0..(i - 1) |-> MockPitch(j)]
        idx == [k \in 1..(i - 1) |-> k]
    IN  [pitchDeviation |-> pd,
         peaks |-> SelectSeq(idx, LAMBDA k : pd[k] > pd[k - 1] /\ Abs(pd[k]) > 10),
         troughs |-> SelectSeq(idx, LAMBDA k : pd[k] < pd[k - 1] /\ Abs(pd[k]) > 10)]
RECURSIVE MockScan(_)
MockScan(i) ==
    IF i = 0
    THEN [pitchDeviation |-> <<>>, peaks |-> <<>>, troughs |-> <<>>]
    ELSE LET prev == MockScan(i - 1)
             k == i - 1
             pd == [j \in 0..k |-> MockPitch(j)]
             interior == k > 0 /\ k < MockFrames - 1
             isPeak == /\ interior
                       /\ Greater(pd, k, k - 1) /\ Greater(pd, k, k + 1)
                       /\ Abs(pd[k]) > 10
             isTrough == /\ interior
                         /\ Less(pd, k, k - 1) /\ Less(pd, k, k + 1)
                         /\ Abs(pd[k]) > 10
         IN  [pitchDeviation |-> pd,
              peaks |-> IF isPeak THEN Append(prev.peaks, k) ELSE prev.peaks,
              troughs |-> IF isTrough THEN Append(prev.troughs, k)
                          ELSE prev.troughs]

generateMockData ==
    LET scan == MockScan(MockFrames)
    IN  AnalysisData("mock", Frames(MockFrames, 1, 0), scan.pitchDeviation,
                     [i \in 0..(MockFrames - 1) |-> MockAmplitudeDeviation(i)],
                     scan.peaks, scan.troughs)

\* A result of the backend over N frames: the arrays have equal length and
\* the extrema are the strict local extrema above the noise threshold.
BackendResult(t) ==
    LET N == Cardinality(DOMAIN t)
        pd == [i \in 0..(N - 1) |-> Sine(i + 1)]
        ad == [i \in 0..(N - 1) |-> Sine(i) \div 6]
    IN  AnalysisData("backend", t, pd, ad,
                     SelectSeq(<<1, 9>>, LAMBDA i: i < N - 1),
                     SelectSeq(<<5, 13>>, LAMBDA i: i < N - 1))

\* The responses the backend is taken to give.
BackendResults ==
    { BackendResult(Frames(4, 1, 0)), BackendResult(Frames(7, 2, 0)),
      BackendResult(Frames(3, 2, 1)),
      BackendResult([i \in 0..3 |-> <<0, 1, 1, 3>>[i + 1]]),
      BackendResult(<<>>) }

\* What a fetch settles with: an OK response carrying a result, a response
\* that is not OK, or a rejection (network error, unparsable body).  The
\* playback session never reads the arrays, so one result stands for all.
Responses ==
    [kind : {"ok"}, data : {BackendResult(Frames(4, 1, 0))}]
        \cup [kind : {"notOk", "rejected"}, data : {NoData}]

\* ---------------------------------------------------------------- state
\* The program's state as one record, so that a handler is a function of it.
Cur ==
    [audioFile |-> audioFile, audioUrl |-> audioUrl,
     analysisData |-> analysisData, isPlaying |-> isPlaying,
     currentTime |-> currentTime, duration |-> duration,
     isAnalyzing |-> isAnalyzing, isDragging |-> isDragging,
     animationFrames |-> animationFrames, listeners |-> listeners,
     audio |-> audio, pendingRuns |-> pendingRuns,
     alerts |-> alerts, fetches |-> fetches]

\* <audio> as mounted: nothing loaded, paused at 0; duration 0 stands for NaN.
NewAudio == [currentTime |-> 0, duration |-> 0, paused |-> TRUE,
             readyState |-> "nothing"]

\* History of the drag: from is currentTime when the drag began, to the
\* position its last seek set; after a release during playback, floor is that
\* position and pre the one the drag began from.  -1 is none.  A seek that is
\* not the drag's (restart, play() rewinding an ended track) clears to, floor
\* and pre: the dragged position no longer stands.
NoDrag == [from |-> -1, to |-> -1, floor |-> -1, pre |-> -1]
Superseded(d) == [d EXCEPT !.to = -1, !.floor = -1, !.pre = -1]

\* The file input is rendered only while no file is chosen.
FileInputMounted_Always(s) == TRUE
FileInputMounted(s) == s.audioFile = NoFile

\* The controls, the graph and the audio element are rendered together, so
\* audioRef.current and progressBarRef.current are set exactly then.
MainContentMounted_FileChosen(s) == s.audioFile # NoFile
MainContentMounted(s) ==
    s.audioFile # NoFile /\ s.analysisData.source # "none" /\ ~s.isAnalyzing

\* ------------------------------------------------------- animation frames
cancelAnimationFrame_Noop(q) == q
cancelAnimationFrame(q) == SelectSeq(q, LAMBDA c: ~c.ref)

requestAnimationFrame(q, playing, dragging) ==
    Append([i \in 1..Len(q) |-> [q[i] EXCEPT !.ref = FALSE]],
           [isPlaying |-> playing, isDragging |-> dragging, ref |-> TRUE])

\* The effect on [isPlaying, isDragging]: cleanup cancels the callback that
\* animationFrameRef names, then a callback is scheduled while playing.
RafEffect(o, n) ==
    IF o.isPlaying = n.isPlaying /\ o.isDragging = n.isDragging
    THEN n
    ELSE LET q == cancelAnimationFrame(n.animationFrames)
         IN  [n EXCEPT !.animationFrames =
                 IF n.isPlaying
                 THEN requestAnimationFrame(q, n.isPlaying, n.isDragging)
                 ELSE q]

\* ------------------------------------------------------ audio listeners
\* The effect on [audioUrl, isPlaying, isDragging, duration]: cleanup removes
\* the listeners; with an audio element it attaches them anew and takes the
\* duration the element already has.  That setDuration renders again and the
\* effect then closes over the new duration.
AudioEffect_NoForceLoad(o, n) ==
    IF /\ o.audioUrl = n.audioUrl /\ o.isPlaying = n.isPlaying
       /\ o.isDragging = n.isDragging /\ o.duration = n.duration
    THEN n
    ELSE IF ~MainContentMounted(n)
         THEN [n EXCEPT !.listeners = <<>>]
         ELSE [n EXCEPT !.listeners =
                  <<[isPlaying |-> n.isPlaying, isDragging |-> n.isDragging,
                     duration |-> n.duration]>>]

AudioEffect(o, n) ==
    IF /\ o.audioUrl = n.audioUrl /\ o.isPlaying = n.isPlaying
       /\ o.isDragging = n.isDragging /\ o.duration = n.duration
    THEN n
    ELSE IF ~MainContentMounted(n)
         THEN [n EXCEPT !.listeners = <<>>]
         ELSE LET d == IF n.audio.duration > 0 THEN n.audio.duration
                       ELSE n.duration
              IN  [n EXCEPT !.duration = d,
                            !.listeners =
                                <<[isPlaying |-> n.isPlaying,
                                   isDragging |-> n.isDragging,
                                   duration |-> d]>>]

\* What React does after a handler turned state o into n.
Commit(o, n) == Once(RafEffect(o, n), LAMBDA r : AudioEffect(o, r))

\* ------------------------------------------------------------- handlers
\* Each handler maps the state it is called in to the state it leaves.

analyzeAudioStart(s, f) ==
    [s EXCEPT !.isAnalyzing = TRUE, !.fetches = @ + 1,
              !.pendingRuns = Append(@, f)]

handleFileUpload(s, f) ==
    analyzeAudioStart(
        [s EXCEPT !.isPlaying = FALSE, !.currentTime = 0, !.duration = 0,
                  !.audioFile = f, !.audioUrl = f], f)

\* catch: one alert, then the generated data is installed.
analyzeAudioCatch_Retry(s, f) ==
    [s EXCEPT !.alerts = @ + 1, !.fetches = @ + 1,
              !.pendingRuns = Append(@, f)]
analyzeAudioCatch(s, f) ==
    [s EXCEPT !.alerts = @ + 1,
              !.analysisData = [generateMockData EXCEPT !.file = f]]

\* The rest of analyzeAudio once the fetch of run i has settled with r:
\* the try block after the await, the catch block, the finally block.
analyzeAudioSettle_NoFinally(s, i, r) ==
    LET f == s.pendingRuns[i]
        t == [s EXCEPT !.pendingRuns =
                 SubSeq(@, 1, i - 1) \o SubSeq(@, i + 1, Len(@))]
    IN  IF r.kind = "ok"
        THEN [t EXCEPT !.analysisData = [r.data EXCEPT !.file = f],
                       !.isAnalyzing = FALSE]
        ELSE analyzeAudioCatch(t, f)
analyzeAudioSettle(s, i, r) ==
    LET f == s.pendingRuns[i]
        t == [s EXCEPT !.pendingRuns =
                 SubSeq(@, 1, i - 1) \o SubSeq(@, i + 1, Len(@))]
        done == IF r.kind = "ok"
                THEN [t EXCEPT !.analysisData = [r.data EXCEPT !.file = f]]
                ELSE analyzeAudioCatch(t, f)
    IN  [done EXCEPT !.isAnalyzing = FALSE]

\* audio.play(): playback that has ended starts again from the beginning.
AudioPlay(a) ==
    [a EXCEPT !.paused = FALSE,
              !.currentTime = IF a.duration > 0 /\ @ = a.duration THEN 0 ELSE @]

togglePlayPause(s) ==
    IF ~MainContentMounted(s) THEN s
    ELSE [s EXCEPT !.audio = IF s.isPlaying THEN [@ EXCEPT !.paused = TRUE]
                             ELSE AudioPlay(@),
                   !.isPlaying = ~s.isPlaying]

restart(s) ==
    IF ~MainContentMounted(s) THEN s
    ELSE [s EXCEPT !.audio.currentTime = 0, !.currentTime = 0]

seekTo_StateOnly(s, time) ==
    IF MainContentMounted(s) /\ s.duration > 0
    THEN [s EXCEPT !.currentTime = Max(0, Min(time, s.duration))]
    ELSE s
seekTo(s, time) ==
    IF MainContentMounted(s) /\ s.duration > 0
    THEN LET clampedTime == Max(0, Min(time, s.duration))
         IN  [s EXCEPT !.audio.currentTime = clampedTime,
                       !.currentTime = clampedTime]
    ELSE s

\* percentage * duration for the mouse at x on a bar BarWidth wide, rounded
\* down to the time grid.
TimeAt(x, d) == (x * d) \div BarWidth

handleProgressDragStart(s, x) ==
    LET t == [s EXCEPT !.isDragging = TRUE]
    IN  IF MainContentMounted(s) /\ s.duration > 0
        THEN seekTo(t, TimeAt(x, s.duration))
        ELSE t

handleProgressDrag(s, x) ==
    IF MainContentMounted(s) /\ s.duration > 0
    THEN seekTo(s, TimeAt(Max(0, Min(BarWidth, x)), s.duration))
    ELSE s

handleProgressDragEnd(s) == [s EXCEPT !.isDragging = FALSE]

\* The animation-frame callback, with the isPlaying and isDragging of the
\* render that created it.
updateTime(s, c) ==
    IF MainContentMounted(s) /\ c.isPlaying /\ ~c.isDragging
    THEN [s EXCEPT !.currentTime = s.audio.currentTime,
                   !.animationFrames =
                       requestAnimationFrame(@, c.isPlaying, c.isDragging)]
    ELSE s

handleLoadedMetadata(s) ==
    [s EXCEPT !.duration = s.audio.duration, !.currentTime = 0]

handleCanPlay(s, c) ==
    IF c.duration = 0 /\ s.audio.duration > 0
    THEN [s EXCEPT !.duration = s.audio.duration]
    ELSE s

handleEnded_TimeOnly(s) == [s EXCEPT !.currentTime = s.audio.duration]
handleEnded(s) ==
    [s EXCEPT !.isPlaying = FALSE, !.currentTime = s.audio.duration]

handleTimeUpdate(s, c) ==
    IF ~c.isPlaying /\ ~c.isDragging
    THEN [s EXCEPT !.currentTime = s.audio.currentTime]
    ELSE s

\* ------------------------------------------------- ScrollingVibratoGraph
\* The range input of the window size: min and max (whole positions only).
MinWindow == 2
MaxWindow == 10
WindowSizes == MinWindow..MaxWindow

Panels == {"pitch", "volume", "correlation"}

VisibleWindow_Unclamped(ct, w) == [timeStart |-> ct - w, timeEnd |-> ct]
VisibleWindow(ct, w) == [timeStart |-> Max(0, ct - w), timeEnd |-> ct]

\* a.findIndex(x => x >= t): the first such index, or -1.
findIndex_Strict(a, t) ==
    LET S == {i \in DOMAIN a : a[i] > t}
    IN  IF S = {} THEN -1 ELSE CHOOSE i \in S : \A j \in S : i <= j
findIndex(a, t) ==
    LET S == {i \in DOMAIN a : a[i] >= t}
    IN  IF S = {} THEN -1 ELSE CHOOSE i \in S : \A j \in S : i <= j

\* The test that ends the effect before anything is drawn.
Unresolved_StartOnly(startIdx, endIdx) == startIdx = -1
Unresolved(startIdx, endIdx) == startIdx = -1 \/ endIdx = -1

\* for (i = startIdx; i <= endIdx && i < data.times.length; i++)
LoopIndices(data, startIdx, endIdx) ==
    {i \in startIdx..endIdx : i < Cardinality(DOMAIN data.times)}

\* The indices at which a fill or a stroke of a curve reads the arrays: the
\* first point, the loop, and the closing point at min(endIdx, length - 1).
CurveIndices(data, startIdx, endIdx) ==
    {startIdx} \cup LoopIndices(data, startIdx, endIdx)
        \cup {Min(endIdx, Cardinality(DOMAIN data.times) - 1)}

\* The entries of a list of extrema that get a marker.
Markers(list, startIdx, endIdx) ==
    {list[k] : k \in {j \in DOMAIN list :
                        list[j] >= startIdx /\ list[j] <= endIdx}}

\* a.slice(from, to) for from >= 0: the indices it copies.
SliceIndices_FromZero(data, from, to) ==
    {i \in 0..(to - 1) : i < Cardinality(DOMAIN data.times)}
SliceIndices(data, from, to) ==
    {i \in from..(to - 1) : i < Cardinality(DOMAIN data.times)}

\* a.slice(from, to) for 0 <= from: the copy it returns, and the array as the
\* call leaves it.
Slice_Splice(a, from, to) ==
    LET last == Min(to, Cardinality(DOMAIN a)) - 1
        rest == Cardinality(DOMAIN a) - (last - from + 1)
    IN  [copy |-> [i \in 0..(last - from) |-> a[from + i]],
         array |-> [i \in 0..(rest - 1) |->
                       IF i < from THEN a[i] ELSE a[i + last - from + 1]]]
Slice(a, from, to) ==
    LET last == Min(to, Cardinality(DOMAIN a)) - 1
    IN  [copy |-> [i \in 0..(last - from) |-> a[from + i]], array |-> a]

PADDING == 40

\* timeToX of a tick whose window is win, on a canvas width wide.  A window
\* of no width divides by zero: the result is NaN or an infinity.
timeToX(time, win, width) ==
    IF win.timeEnd = win.timeStart THEN "NaN"
    ELSE PADDING + ((time - win.timeStart) * (width - 2 * PADDING))
                       \div (win.timeEnd - win.timeStart)

HEIGHT_PITCH == 200
HEIGHT_VOLUME == 150

\* The y of a curve point for a deviation value on a panel height high whose
\* axis spans range units: centerY - value * scale, clamped to the content
\* rectangle (whole pixels).
ClampedY(value, height, range) ==
    LET centerY == height \div 2
        y == centerY - (value * (height - 2 * PADDING)) \div range
    IN  Max(PADDING, Min(height - PADDING, y))

\* The points of the curves and the markers that drawPitchDeviation and
\* drawAmplitude hand to lineTo, moveTo and drawMarker: x is timeToX of the
\* frame's time as it comes, y is clamped.
Points(data, win, startIdx, endIdx) ==
    {[panel |-> "pitch", index |-> i,
      x |-> timeToX(data.times[i], win, CanvasWidth),
      y |-> ClampedY(data.pitchDeviation[i], HEIGHT_PITCH, 400)] :
        i \in LoopIndices(data, startIdx, endIdx)
                 \cup Markers(data.peaks, startIdx, endIdx)
                 \cup Markers(data.troughs, startIdx, endIdx)}
    \cup
    {[panel |-> "volume", index |-> i,
      x |-> timeToX(data.times[i], win, CanvasWidth),
      y |-> ClampedY(data.amplitudeDeviation[i], HEIGHT_VOLUME, 40)] :
        i \in LoopIndices(data, startIdx, endIdx)}

\* Each draw function: the index range it was given (from, to), the indices
\* at which it reads times and the deviation arrays, and what it draws.
drawPitchDeviation(data, startIdx, endIdx) ==
    [from |-> startIdx, to |-> endIdx,
     reads |-> CurveIndices(data, startIdx, endIdx)
                   \cup Markers(data.peaks, startIdx, endIdx)
                   \cup Markers(data.troughs, startIdx, endIdx),
     ops |-> {"curve"}]

drawAmplitude(data, startIdx, endIdx) ==
    [from |-> startIdx, to |-> endIdx,
     reads |-> CurveIndices(data, startIdx, endIdx), ops |-> {"curve"}]

\* drawCorrelation also slices both deviation arrays for calculateCorrelation
\* when the range holds more than one frame: slice is the indices copied,
\* args the two copies, data the result as the calls leave it.
drawCorrelation_WholeClip(data, startIdx, endIdx) ==
    LET last == Cardinality(DOMAIN data.times) - 1
        pitch == Slice(data.pitchDeviation, 0, last + 1)
        amp == Slice(data.amplitudeDeviation, 0, last + 1)
    IN  [from |-> 0, to |-> last,
         reads |-> LoopIndices(data, 0, last) \cup SliceIndices(data, 0, last + 1),
         ops |-> {"curve", "label"},
         slice |-> SliceIndices(data, 0, last + 1),
         args |-> <<pitch.copy, amp.copy>>,
         data |-> data]
drawCorrelation(data, startIdx, endIdx) ==
    LET pitch == Slice(data.pitchDeviation, startIdx, endIdx + 1)
        amp == Slice(data.amplitudeDeviation, startIdx, endIdx + 1)
    IN  IF endIdx > startIdx
        THEN [from |-> startIdx, to |-> endIdx,
              reads |-> LoopIndices(data, startIdx, endIdx)
                            \cup SliceIndices(data, startIdx, endIdx + 1),
              ops |-> {"curve", "label"},
              slice |-> SliceIndices(data, startIdx, endIdx + 1),
              args |-> <<pitch.copy, amp.copy>>,
              data |-> [data EXCEPT !.pitchDeviation = pitch.array,
                                    !.amplitudeDeviation = amp.array]]
        ELSE [from |-> startIdx, to |-> endIdx,
              reads |-> LoopIndices(data, startIdx, endIdx),
              ops |-> {"curve"}, slice |-> {}, args |-> <<>>, data |-> data]

\* What a canvas shows: the window and the index range of the tick that drew
\* it last; Blank before the first draw.
View(win, from, to) ==
    [timeStart |-> win.timeStart, timeEnd |-> win.timeEnd,
     startIdx |-> from, endIdx |-> to]
Blank == View([timeStart |-> -1, timeEnd |-> -1], -1, -1)
BlankCanvas == [p \in Panels |-> Blank]

NoTick == [computed |-> FALSE, drawn |-> FALSE, timeStart |-> -1,
           timeEnd |-> -1, startIdx |-> -1, endIdx |-> -1,
           ops |-> {}, reads |-> {}, views |-> BlankCanvas,
           slice |-> {}, args |-> <<>>, points |-> {}]

\* The main rendering effect past its guards, for one value of its
\* dependencies: what it computed, the draw operations it issued as
\* (panel, operation) pairs, and what each panel was drawn from.
RenderRange(data, win, startIdx, endIdx) ==
    LET found == [NoTick EXCEPT
                     !.computed = TRUE,
                     !.timeStart = win.timeStart, !.timeEnd = win.timeEnd,
                     !.startIdx = startIdx, !.endIdx = endIdx]
        Drawn(p, v, c) ==
            [found EXCEPT
                !.drawn = TRUE,
                !.ops = (Panels \X {"clear", "grid", "playhead"})
                            \cup ({"pitch"} \X p.ops)
                            \cup ({"volume"} \X v.ops)
                            \cup ({"correlation"} \X c.ops),
                !.reads = p.reads \cup v.reads \cup c.reads,
                !.views = [q \in Panels |->
                              IF q = "pitch" THEN View(win, p.from, p.to)
                              ELSE IF q = "volume"
                              THEN View(win, v.from, v.to)
                              ELSE View(win, c.from, c.to)],
                !.slice = c.slice, !.args = c.args,
                !.points = Points(data, win, startIdx, endIdx)]
    IN  IF Unresolved(startIdx, endIdx) THEN found
        ELSE Once(<<drawPitchDeviation(data, startIdx, endIdx),
                    drawAmplitude(data, startIdx, endIdx),
                    drawCorrelation(data, startIdx, endIdx)>>,
                  LAMBDA d : Drawn(d[1], d[2], d[3]))

\* The two indices are resolved once per tick and handed to the three draw
\* functions.
RenderTick(data, ct, w) ==
    IF data.source = "none" \/ Cardinality(DOMAIN data.times) = 0
    THEN NoTick
    ELSE LET win == VisibleWindow(ct, w)
         IN  Once(<<findIndex(data.times, win.timeStart),
                    findIndex(data.times, win.timeEnd)>>,
                  LAMBDA ix : RenderRange(data, win, ix[1], ix[2]))

\* The main rendering effect: it returns before anything else when a canvas
\* has no 2D context.
RenderEffect(data, ct, w, ctxs) ==
    IF ctxs # Panels THEN NoTick ELSE RenderTick(data, ct, w)

\* The result after the effect has run: the draw functions are the only code
\* of the effect that handles its arrays.
DataAfterEffect(data, ct, w, ctxs) ==
    Once(RenderEffect(data, ct, w, ctxs),
         LAMBDA t : IF t.drawn
                    THEN drawCorrelation(data, t.startIdx, t.endIdx).data
                    ELSE data)

\* The canvases after a tick: a tick that draws clears and redraws all three,
\* any other leaves them as they were.
Paint(cv, t) == IF t.drawn THEN t.views ELSE cv

\* Whether a commit that turned o into n runs the rendering effect: at mount
\* and when one of [analysisData, currentTime, windowSize, isPlaying] changed
\* (windowSize is the graph's own state and changes in no handler of App).
GraphEffectRuns_WhilePlaying(o, n) ==
    \/ ~MainContentMounted(o)
    \/ n.isPlaying /\ (o.currentTime # n.currentTime \/ o.isPlaying # n.isPlaying)
GraphEffectRuns(o, n) ==
    \/ ~MainContentMounted(o)
    \/ o.analysisData # n.analysisData
    \/ o.currentTime # n.currentTime
    \/ o.isPlaying # n.isPlaying

\* The graph after a commit that turned o into n, from its tick t and its
\* canvases cv before: unmounted, mounted afresh, or rendered again.
GraphEffect(o, n, t, cv, w, ctxs) ==
    IF ~MainContentMounted(n)
    THEN [tick |-> NoTick, canvas |-> BlankCanvas, data |-> n.analysisData]
    ELSE IF GraphEffectRuns(o, n)
    THEN Once(RenderEffect(n.analysisData, n.currentTime, w, ctxs),
              LAMBDA t2 :
                  [tick |-> t2,
                   canvas |-> Paint(IF MainContentMounted(o) THEN cv
                                    ELSE BlankCanvas, t2),
                   data |-> DataAfterEffect(n.analysisData, n.currentTime,
                                            w, ctxs)])
    ELSE [tick |-> t, canvas |-> cv, data |-> n.analysisData]

\* ------------------------------------------------------------- numbers
\* A number is m * 2^e with an odd m of at most MantissaBits bits, or zero.
\* Every operation gives the number nearest to the exact result, ties to the
\* even significand.
RECURSIVE Normal(_, _)
Normal(m, e) ==
    IF m = 0 THEN [m |-> 0, e |-> 0]
    ELSE IF m % 2 = 0 THEN Normal(m \div 2, e + 1)
    ELSE [m |-> m, e |-> e]

Number(i) == Normal(i, 0)

BitLength(a) == CHOOSE k \in 0..30 : a < 2 ^ k /\ (k = 0 \/ a >= 2 ^ (k - 1))

\* The number nearest to (a + d) * 2^e for a >= 0 and 0 <= d < 1, where
\* sticky says that d > 0; negative makes it the number nearest to the
\* opposite.
RoundToNearest(a, e, sticky, negative) ==
    LET k == BitLength(a) - MantissaBits
        q == a \div (2 ^ k)
        r == a % (2 ^ k)
        half == 2 ^ (k - 1)
        up == \/ r > half
              \/ r = half /\ (sticky \/ q % 2 = 1)
        m == IF k <= 0 THEN a ELSE IF up THEN q + 1 ELSE q
    IN  Normal(IF negative THEN -m ELSE m, IF k <= 0 THEN e ELSE e + k)

\* The exact value a * 2^e, rounded.
Rounded(a, e) == RoundToNearest(Abs(a), e, FALSE, a < 0)

FloatAdd(f, g) ==
    LET e == Min(f.e, g.e)
    IN  Rounded(f.m * 2 ^ (f.e - e) + g.m * 2 ^ (g.e - e), e)

FloatSub(f, g) == FloatAdd(f, [g EXCEPT !.m = -g.m])

FloatMul(f, g) == Rounded(f.m * g.m, f.e + g.e)

\* f / g for g # 0: the quotient to MantissaBits + 2 bits or more, and
\* whether the division left a remainder.
FloatDiv(f, g) ==
    LET a == Abs(f.m)
        b == Abs(g.m)
        s == MantissaBits + 2 + BitLength(b)
    IN  IF a = 0 THEN Number(0)
        ELSE RoundToNearest((a * 2 ^ s) \div b, f.e - g.e - s,
                            (a * 2 ^ s) % b # 0, (f.m < 0) # (g.m < 0))

\* Math.sqrt(f) for f >= 0: the integer root of f scaled by an even power of
\* two, and whether it is inexact.
FloatSqrt_RoundedDown(f) ==
    LET s == 2 * MantissaBits + 2 + (f.e % 2)
        v == f.m * 2 ^ s
        bits == BitLength(v)
        root == CHOOSE r \in (2 ^ ((bits - 1) \div 2))..(2 ^ ((bits + 1) \div 2)) :
                    r * r <= v /\ (r + 1) * (r + 1) > v
        k == BitLength(root) - MantissaBits
    IN  IF f.m = 0 THEN Number(0)
        ELSE Normal(root \div (2 ^ k), (f.e - s) \div 2 + k)
FloatSqrt(f) ==
    LET s == 2 * MantissaBits + 2 + (f.e % 2)
        v == f.m * 2 ^ s
        bits == BitLength(v)
        root == CHOOSE r \in (2 ^ ((bits - 1) \div 2))..(2 ^ ((bits + 1) \div 2)) :
                    r * r <= v /\ (r + 1) * (r + 1) > v
    IN  IF f.m = 0 THEN Number(0)
        ELSE RoundToNearest(root, (f.e - s) \div 2, root * root # v, FALSE)

\* x.reduce((a, b) => a + b, 0) over x[1..i].
RECURSIVE Sum(_, _)
Sum(x, i) == IF i = 0 THEN Number(0) ELSE FloatAdd(Sum(x, i - 1), Number(x[i]))

\* The loop of calculateCorrelation after its first i iterations.
RECURSIVE CorrelationLoop(_, _, _, _, _)
CorrelationLoop(x, y, meanX, meanY, i) ==
    IF i = 0
    THEN [numerator |-> Number(0), denomX |-> Number(0), denomY |-> Number(0)]
    ELSE LET acc == CorrelationLoop(x, y, meanX, meanY, i - 1)
             dx == FloatSub(Number(x[i]), meanX)
             dy == FloatSub(Number(y[i]), meanY)
         IN  [numerator |-> FloatAdd(acc.numerator, FloatMul(dx, dy)),
              denomX |-> FloatAdd(acc.denomX, FloatMul(dx, dx)),
              denomY |-> FloatAdd(acc.denomY, FloatMul(dy, dy))]

\* calculateCorrelation(x, y) for sequences of integers: whether it threw,
\* and the number it returned.
Returned(f) == [called |-> TRUE, threw |-> FALSE, value |-> f]
NotCalled == [called |-> FALSE, threw |-> FALSE, value |-> Number(0)]

calculateCorrelation(x, y) ==
    LET n == Len(x)
        meanX == FloatDiv(Sum(x, n), Number(n))
        meanY == FloatDiv(Sum(y, n), Number(n))
        acc == CorrelationLoop(x, y, meanX, meanY, n)
    IN  IF Len(x) # Len(y) \/ Len(x) = 0 THEN Returned(Number(0))
        ELSE IF acc.denomX.m = 0 \/ acc.denomY.m = 0 THEN Returned(Number(0))
        ELSE Returned(FloatDiv(acc.numerator,
                               FloatSqrt(FloatMul(acc.denomX, acc.denomY))))

\* -------------------------------------------------------------- actions
Init ==
    /\ audioFile = NoFile /\ audioUrl = NoFile /\ analysisData = NoData
    /\ isPlaying = FALSE /\ currentTime = 0 /\ duration = 0
    /\ isAnalyzing = FALSE /\ isDragging = FALSE
    /\ animationFrames = <<>> /\ listeners = <<>> /\ audio = NewAudio
    /\ pendingRuns = <<>> /\ alerts = 0 /\ fetches = 0
    /\ windowSize = 5 /\ tick = NoTick
    /\ contexts = Panels /\ canvas = BlankCanvas
    /\ pitchSlice = <<>> /\ ampSlice = <<>> /\ corr = NotCalled
    /\ lastHandler = "none" /\ timeChanged = FALSE /\ drag = NoDrag
    /\ outcome = "none"

\* A handler has turned the state into n0: React commits, the graph renders,
\* and the history records which handler ran and whether currentTime changed.
Apply(name, n0, d, oc) ==
    \E m \in {n0} :
    \E n \in {Commit(Cur, m)} :
    \E g \in {GraphEffect(Cur, n, tick, canvas, windowSize, contexts)} :
        /\ audioFile' = n.audioFile /\ audioUrl' = n.audioUrl
        /\ analysisData' = g.data /\ isPlaying' = n.isPlaying
        /\ currentTime' = n.currentTime /\ duration' = n.duration
        /\ isAnalyzing' = n.isAnalyzing /\ isDragging' = n.isDragging
        /\ animationFrames' = n.animationFrames /\ listeners' = n.listeners
        /\ audio' = n.audio /\ pendingRuns' = n.pendingRuns
        /\ alerts' = n.alerts /\ fetches' = n.fetches
        /\ lastHandler' = name
        /\ timeChanged' = (n.currentTime # currentTime)
        /\ drag' = d /\ outcome' = oc
        /\ tick' = g.tick /\ canvas' = g.canvas
        /\ UNCHANGED <<windowSize, contexts, pitchSlice, ampSlice, corr>>

\* An event of the audio element: the element changes to a, and the handler
\* runs if the listeners are attached.
Dispatch(name, a, handled) ==
    LET s == [Cur EXCEPT !.audio = a]
    IN  IF listeners = <<>> THEN Apply("none", s, drag, outcome)
        ELSE Apply(name, handled, drag, outcome)

FileUpload ==
    \E f \in Files :
        /\ FileInputMounted(Cur)
        /\ Apply("handleFileUpload", handleFileUpload(Cur, f), NoDrag, "pending")

AnalysisSettles ==
    \E i \in 1..Len(pendingRuns), r \in Responses :
        Apply("analyzeAudio", analyzeAudioSettle(Cur, i, r), drag,
              IF r.kind = "ok" THEN "ok" ELSE "failed")

TogglePlayPause ==
    /\ MainContentMounted(Cur)
    /\ Apply("togglePlayPause", togglePlayPause(Cur),
             IF ~isPlaying /\ AudioPlay(audio).currentTime # audio.currentTime
             THEN Superseded(drag) ELSE drag,
             outcome)

Restart ==
    /\ MainContentMounted(Cur)
    /\ Apply("restart", restart(Cur), Superseded(drag), outcome)

ProgressDragStart ==
    \E x \in 0..BarWidth :
        /\ MainContentMounted(Cur) /\ ~isDragging
        /\ LET n == handleProgressDragStart(Cur, x)
           IN  Apply("handleProgressDragStart", n,
                     [from |-> currentTime,
                      to |-> IF duration > 0 THEN n.currentTime ELSE -1,
                      floor |-> -1, pre |-> -1],
                     outcome)

\* mousemove on the window while the drag lasts; the mouse may leave the bar.
ProgressDrag ==
    \E x \in -1..(BarWidth + 1) :
        /\ isDragging
        /\ LET n == handleProgressDrag(Cur, x)
           IN  Apply("handleProgressDrag", n,
                     IF duration > 0 THEN [drag EXCEPT !.to = n.currentTime]
                     ELSE drag,
                     outcome)

\* mouseup: a drag that moved the position and ends during playback leaves
\* the position it set (floor) and the one it started from (pre).
ProgressDragEnd ==
    /\ isDragging
    /\ Apply("handleProgressDragEnd", handleProgressDragEnd(Cur),
             IF isPlaying /\ drag.to # -1
             THEN [from |-> -1, to |-> -1, floor |-> drag.to, pre |-> drag.from]
             ELSE NoDrag,
             outcome)

\* The browser runs the oldest pending animation-frame callback.
AnimationFrame ==
    /\ animationFrames # <<>>
    /\ Apply("updateTime",
             updateTime([Cur EXCEPT !.animationFrames = Tail(@)],
                        Head(animationFrames)),
             drag, outcome)

\* The element has read the file's header: its duration is known.
AudioLoadsMetadata ==
    /\ MainContentMounted(Cur) /\ audio.readyState = "nothing"
    /\ LET a == [audio EXCEPT !.readyState = "metadata", !.duration = audioFile]
       IN  Dispatch("handleLoadedMetadata", a,
                    handleLoadedMetadata([Cur EXCEPT !.audio = a]))

\* The element has buffered enough to play.
AudioCanPlay ==
    /\ MainContentMounted(Cur) /\ audio.readyState = "metadata"
    /\ LET a == [audio EXCEPT !.readyState = "canplay"]
       IN  Dispatch("handleCanPlay", a,
                    handleCanPlay([Cur EXCEPT !.audio = a], Head(listeners)))

\* Playback advances by one unit and the element reports it (timeupdate).
AudioPlays ==
    /\ MainContentMounted(Cur) /\ ~audio.paused
    /\ audio.readyState = "canplay" /\ audio.currentTime < audio.duration
    /\ LET a == [audio EXCEPT !.currentTime = @ + 1]
       IN  Dispatch("handleTimeUpdate", a,
                    handleTimeUpdate([Cur EXCEPT !.audio = a], Head(listeners)))

\* Playback has reached the end: the element pauses and reports it (ended).
AudioEnds ==
    /\ MainContentMounted(Cur) /\ ~audio.paused
    /\ audio.readyState = "canplay" /\ audio.currentTime = audio.duration
    /\ LET a == [audio EXCEPT !.paused = TRUE]
       IN  Dispatch("handleEnded", a, handleEnded([Cur EXCEPT !.audio = a]))

\* timeupdate after a seek or a pause.
AudioTimeUpdate ==
    /\ MainContentMounted(Cur) /\ listeners # <<>>
    /\ Dispatch("handleTimeUpdate", audio,
                handleTimeUpdate(Cur, Head(listeners)))

Next ==
    \/ FileUpload
    \/ AnalysisSettles
    \/ TogglePlayPause
    \/ Restart
    \/ ProgressDragStart
    \/ ProgressDrag
    \/ ProgressDragEnd
    \/ AnimationFrame
    \/ AudioLoadsMetadata
    \/ AudioCanPlay
    \/ AudioPlays
    \/ AudioEnds
    \/ AudioTimeUpdate

Spec == Init /\ [][Next]_vars

\* The session with the browser doing its part: a fetch settles (with a
\* response or a rejection), a requested animation frame is run, the audio
\* element loads what its src names, plays while it is not paused and
\* reports the end it has reached.  Nothing is assumed of the user.
SpecLive ==
    /\ Init /\ [][Next]_vars
    /\ WF_vars(AnalysisSettles)
    /\ WF_vars(AnimationFrame)
    /\ WF_vars(AudioLoadsMetadata)
    /\ WF_vars(AudioCanPlay)
    /\ WF_vars(AudioPlays)
    /\ WF_vars(AudioEnds)

\* --------------------------------------------------- the renderer alone
\* The graph as App mounts it: a result is loaded, the audio has a duration,
\* and App hands down any position within it (C3).  React runs the
\* rendering effect at mount and after each change of its dependencies
\* [analysisData, currentTime, windowSize, isPlaying].  getContext('2d') may
\* give null; which canvases give a context does not change while mounted.
GraphResults == BackendResults \cup {generateMockData}

GraphContexts == {Panels, Panels \ {"correlation"}}

GraphInit ==
    /\ audioFile = 1 /\ audioUrl = 1
    /\ contexts \in GraphContexts
    /\ isPlaying = FALSE /\ currentTime = 0
    /\ duration \in {5, MaxTime}
    /\ isAnalyzing = FALSE /\ isDragging = FALSE
    /\ animationFrames = <<>> /\ listeners = <<>> /\ audio = NewAudio
    /\ pendingRuns = <<>> /\ alerts = 0 /\ fetches = 1
    /\ windowSize = 5
    /\ \E d \in GraphResults :
        /\ analysisData =
               DataAfterEffect([d EXCEPT !.file = 1], 0, windowSize, contexts)
        /\ tick = RenderEffect([d EXCEPT !.file = 1], 0, windowSize, contexts)
    /\ canvas = Paint(BlankCanvas, tick)
    /\ pitchSlice = <<>> /\ ampSlice = <<>> /\ corr = NotCalled
    /\ lastHandler = "mount" /\ timeChanged = FALSE /\ drag = NoDrag
    /\ outcome = "ok"

GraphUnchanged ==
    UNCHANGED <<audioFile, audioUrl, duration, isAnalyzing,
                isDragging, animationFrames, listeners, audio, pendingRuns,
                alerts, fetches, contexts, pitchSlice, ampSlice, corr,
                drag, outcome>>

\* The rendering effect runs for position t and window size w.
GraphRenders(t, w) ==
    /\ tick' = RenderEffect(analysisData, t, w, contexts)
    /\ canvas' = Paint(canvas, tick')
    /\ analysisData' = DataAfterEffect(analysisData, t, w, contexts)

\* App renders with another currentTime.
PropCurrentTime ==
    \E t \in 0..duration :
        /\ t # currentTime
        /\ currentTime' = t /\ timeChanged' = TRUE
        /\ GraphRenders(t, windowSize)
        /\ lastHandler' = "currentTime"
        /\ UNCHANGED <<isPlaying, windowSize>> /\ GraphUnchanged

\* App renders with the other isPlaying.
PropIsPlaying ==
    /\ isPlaying' = ~isPlaying /\ timeChanged' = FALSE
    /\ GraphRenders(currentTime, windowSize)
    /\ lastHandler' = "isPlaying"
    /\ UNCHANGED <<currentTime, windowSize>> /\ GraphUnchanged

\* The range input changes: setWindowSize(parseFloat(e.target.value)).
SetWindowSize ==
    \E w \in WindowSizes :
        /\ w # windowSize
        /\ windowSize' = w /\ timeChanged' = FALSE
        /\ GraphRenders(currentTime, w)
        /\ lastHandler' = "windowSize"
        /\ UNCHANGED <<currentTime, isPlaying>> /\ GraphUnchanged

GraphNext == PropCurrentTime \/ PropIsPlaying \/ SetWindowSize

SpecGraph == GraphInit /\ [][GraphNext]_vars

\* ------------------------------------------- calculateCorrelation alone
\* The function applied to two sequences of whole numbers: the first any
\* sequence of up to MaxSlice entries, the second one of the sequences that
\* stand in some relation to it (itself, reversed, shifted, a constant
\* sequence, a shorter one).
SliceValues == ((-MaxValue)..MaxValue) \cup {LongValue}

RECURSIVE Slices(_)
Slices(n) ==
    IF n = 0 THEN {<<>>}
    ELSE Slices(n - 1) \cup [1..n -> SliceValues]

AmpSlices(x) ==
    {x, [i \in 1..Len(x) |-> x[Len(x) + 1 - i]]}
        \cup {[i \in 1..Len(x) |-> x[i] + k] : k \in 1..MaxValue}
        \cup {[i \in 1..n |-> v] : n \in {1, Len(x)}, v \in SliceValues}
        \cup {SubSeq(x, 1, n) : n \in 0..Len(x)}

CorrInit ==
    /\ audioFile = NoFile /\ audioUrl = NoFile /\ analysisData = NoData
    /\ isPlaying = FALSE /\ currentTime = 0 /\ duration = 0
    /\ isAnalyzing = FALSE /\ isDragging = FALSE
    /\ animationFrames = <<>> /\ listeners = <<>> /\ audio = NewAudio
    /\ pendingRuns = <<>> /\ alerts = 0 /\ fetches = 0
    /\ windowSize = 5 /\ tick = NoTick
    /\ contexts = Panels /\ canvas = BlankCanvas
    /\ pitchSlice \in Slices(MaxSlice) /\ ampSlice \in AmpSlices(pitchSlice)
    /\ corr = NotCalled
    /\ lastHandler = "none" /\ timeChanged = FALSE /\ drag = NoDrag
    /\ outcome = "none"

Correlate ==
    /\ ~corr.called
    /\ corr' = calculateCorrelation(pitchSlice, ampSlice)
    /\ lastHandler' = "calculateCorrelation"
    /\ UNCHANGED <<audioFile, audioUrl, analysisData, isPlaying, currentTime,
                   duration, isAnalyzing, isDragging, animationFrames,
                   listeners, audio, pendingRuns, alerts, fetches, windowSize,
                   tick, contexts, canvas, pitchSlice, ampSlice, timeChanged,
                   drag, outcome>>

CorrNext == Correlate

SpecCorr == CorrInit /\ [][CorrNext]_vars

\* ============================================================ properties
ClockHandlers ==
    {"updateTime", "handleTimeUpdate", "handleEnded", "handleLoadedMetadata"}

\* C1: while a drag is active, no animation-frame tick and no handler of the
\* audio element (timeupdate, ended, loadedmetadata) changes currentTime: the
\* drag's seeks are the only clock-independent writer.
C1_DragIsSoleWriter ==
    (isDragging /\ timeChanged) => lastHandler \notin ClockHandlers

\* C2 (as amended): after a drag that set currentTime to t0 (drag.floor) was
\* released during playback, and until the next seek, the clock is running
\* again, the audio position and currentTime are at or after t0, and a value
\* written by the clock is the audio position.
C2_ResumesFromDraggedPosition ==
    drag.floor # -1 =>
        /\ audio.currentTime >= drag.floor
        /\ currentTime >= drag.floor
        /\ (lastHandler = "updateTime" /\ timeChanged
                => currentTime = audio.currentTime)
        /\ (isPlaying /\ ~isDragging
                => /\ Len(animationFrames) = 1
                   /\ animationFrames[1].isPlaying
                   /\ ~animationFrames[1].isDragging)

\* C2 reached: the clock has written a position past t0 after the release of
\* a drag that moved the position.
C2_Witness ==
    /\ drag.floor # -1 /\ drag.pre # drag.floor
    /\ lastHandler = "updateTime" /\ timeChanged
    /\ currentTime > drag.floor

\* C2 (as claimed): in addition, currentTime never again has the value it had
\* before the drag began.
C2_NeverReturnsToPreDrag ==
    /\ C2_ResumesFromDraggedPosition
    /\ (drag.floor # -1 /\ drag.pre # drag.floor => currentTime # drag.pre)

\* C3: the playback position stays within the audio: 0 <= currentTime <=
\* duration in every reachable state.
C3_TimeWithinDuration == 0 <= currentTime /\ currentTime <= duration

\* C3 reached: the clock has moved the position into the interior of a
\* loaded audio.
C3_Witness ==
    /\ lastHandler = "updateTime" /\ timeChanged
    /\ 0 < currentTime /\ currentTime < duration

\* C5: at most one analysis run is in flight at any time.
C5_OneRunInFlight == Len(pendingRuns) <= 1

\* C5 reached: a run is in flight and a file is chosen.
C5_Witness == Len(pendingRuns) = 1 /\ audioFile # NoFile /\ isAnalyzing

\* C10 (as amended): a failed run is reported by exactly one alert, is not
\* retried, and ends with the generated data installed for that file; a run
\* that has not failed raises no alert.
C10_FailureReportedOnceWithFallback ==
    /\ outcome = "failed" =>
           /\ alerts = 1 /\ fetches = 1 /\ pendingRuns = <<>>
           /\ ~isAnalyzing
           /\ analysisData = [generateMockData EXCEPT !.file = audioFile]
    /\ outcome # "failed" => alerts = 0

\* C10 reached: a run has failed.
C10_Witness == outcome = "failed" /\ lastHandler = "analyzeAudio"

\* C10 (as claimed): a failed run is reported once, is not retried, and
\* leaves analysisData as it was before the run (no result installed).
C10_FailureInstallsNothing ==
    outcome = "failed" =>
        /\ alerts = 1 /\ fetches = 1 /\ pendingRuns = <<>>
        /\ analysisData = NoData

\* C11: while an analysis run is pending (isAnalyzing, which holds exactly
\* while a fetch has not settled) nothing of a result is shown: the controls,
\* the graph and the audio element are not mounted, no tick has run and the
\* canvases are blank; a tick runs only with a result set, isAnalyzing false
\* and the run ended (ok or failed).
C11_NothingShownWhilePending ==
    /\ isAnalyzing <=> pendingRuns # <<>>
    /\ isAnalyzing <=> outcome = "pending"
    /\ isAnalyzing =>
           /\ ~MainContentMounted(Cur) /\ listeners = <<>>
           /\ ~tick.computed /\ tick.ops = {} /\ canvas = BlankCanvas
    /\ tick.computed =>
           /\ analysisData.source # "none" /\ ~isAnalyzing
           /\ outcome \in {"ok", "failed"}

\* C11 reached: a run is pending after an upload.
C11_Witness ==
    isAnalyzing /\ lastHandler = "handleFileUpload" /\ audioFile # NoFile

\* C12: right after an upload isPlaying is false, currentTime and duration
\* are 0, no animation-frame callback is pending and nothing is rendered;
\* and whenever the main content is mounted, the result shown is the one of
\* the file whose audio is loaded.
C12_UploadResetsPlayback ==
    /\ lastHandler = "handleFileUpload" =>
           /\ ~isPlaying /\ currentTime = 0 /\ duration = 0
           /\ animationFrames = <<>> /\ ~tick.computed
    /\ MainContentMounted(Cur) =>
           analysisData.file = audioFile /\ audioUrl = audioFile

\* C12 reached: a file has just been uploaded.
C12_Witness ==
    /\ lastHandler = "handleFileUpload" /\ audioFile # NoFile
    /\ audioUrl = audioFile /\ pendingRuns = <<audioFile>>

\* C13: while a result is loaded, the last tick of the rendering effect was
\* computed from the present currentTime, playing or paused: its window ends
\* at currentTime and starts windowSize before it (or at 0), and if it drew,
\* every canvas shows that window.
C13_RenderFollowsCurrentTime ==
    MainContentMounted(Cur) =>
        /\ tick.computed
        /\ tick.timeEnd = currentTime
        /\ tick.timeStart = Max(0, currentTime - windowSize)
        /\ (tick.drawn => \A p \in Panels : canvas[p].timeEnd = currentTime)

\* C13 reached: a drag while paused moved currentTime and the graph was drawn
\* again from the new position.
C13_Witness ==
    /\ ~isPlaying /\ timeChanged /\ currentTime > 0
    /\ lastHandler \in {"handleProgressDrag", "handleProgressDragStart"}
    /\ tick.drawn /\ tick.timeEnd = currentTime
    /\ canvas["pitch"].timeEnd = currentTime

\* ------------------------------------------------- renderer properties
N == Cardinality(DOMAIN analysisData.times)
FirstAtOrAfter(i, t) ==
    /\ i \in 0..(N - 1)
    /\ analysisData.times[i] >= t
    /\ \A j \in 0..(i - 1) : analysisData.times[j] < t

\* C6: on every tick that computes the window, timeEnd is currentTime and
\* timeStart is currentTime - windowSize, or 0 when that is negative; so
\* timeStart <= timeEnd and the window is at most windowSize wide; at
\* currentTime 12 with windowSize 5 the window is [7, 12].
C6_VisibleWindow ==
    tick.computed =>
        /\ tick.timeEnd = currentTime
        /\ (currentTime >= windowSize
                => tick.timeStart = currentTime - windowSize)
        /\ (currentTime < windowSize => tick.timeStart = 0)
        /\ tick.timeStart <= tick.timeEnd
        /\ tick.timeEnd - tick.timeStart <= windowSize
        /\ (currentTime = 12 /\ windowSize = 5
                => tick.timeStart = 7 /\ tick.timeEnd = 12)

\* C6 reached: the example of the specification, window size 5, position 12.
C6_Witness ==
    /\ duration >= 12 /\ windowSize = 5 /\ currentTime = 12
    /\ tick.computed /\ tick.timeStart = 7 /\ tick.timeEnd = 12

\* C7: an index that is found is the first index whose time is at or after
\* the bound; when both are found, 0 <= startIdx <= endIdx <= N - 1.
C7_IndexRange ==
    tick.computed =>
        /\ (tick.startIdx # -1 => FirstAtOrAfter(tick.startIdx, tick.timeStart))
        /\ (tick.endIdx # -1 => FirstAtOrAfter(tick.endIdx, tick.timeEnd))
        /\ (tick.startIdx # -1 /\ tick.endIdx # -1
                => /\ 0 <= tick.startIdx /\ tick.startIdx <= tick.endIdx
                   /\ tick.endIdx <= N - 1)

\* C7 reached: both indices are found, they differ, and a frame time occurs
\* twice in the series.
C7_Witness ==
    /\ tick.computed /\ tick.startIdx > 0 /\ tick.endIdx > tick.startIdx
    /\ \E i \in 1..(N - 1) : analysisData.times[i] = analysisData.times[i - 1]

\* C8: a tick on which an index is not found issues no draw operation, not
\* even the clear; a tick that draws reads the arrays only at 0..N-1.
C8_SkipOrDrawInRange ==
    /\ (tick.computed /\ (tick.startIdx = -1 \/ tick.endIdx = -1)
            => tick.ops = {} /\ tick.reads = {} /\ ~tick.drawn)
    /\ (tick.drawn => tick.reads \subseteq 0..(N - 1) /\ tick.reads # {})

\* C8 reached: a tick was skipped because endIdx was not found.
C8_WitnessSkipped ==
    tick.computed /\ tick.endIdx = -1 /\ tick.startIdx # -1 /\ tick.ops = {}

\* C9: a tick is skipped only when currentTime is before the first frame or
\* the window starts after the last frame; a window that overlaps the series
\* is drawn.
C9_OverlappingWindowIsDrawn ==
    (/\ tick.computed
     /\ analysisData.times[0] <= currentTime
     /\ tick.timeStart <= analysisData.times[N - 1]) => tick.drawn


\* The window and index range of the last tick, as a canvas shows them.
TickView ==
    View([timeStart |-> tick.timeStart, timeEnd |-> tick.timeEnd],
         tick.startIdx, tick.endIdx)

\* C14: the three canvases always show the same window and index range, and
\* a tick that draws draws all three from its own timeStart, timeEnd,
\* startIdx and endIdx (hence the same time-to-pixel mapping), computed from
\* the present currentTime.
C14_PanelsShareWindow ==
    /\ \A p, q \in Panels : canvas[p] = canvas[q]
    /\ tick.drawn =>
           /\ tick.timeEnd = currentTime
           /\ \A p \in Panels : tick.views[p] = TickView /\ canvas[p] = TickView

\* C14 reached: a tick drew a window that starts after the first frame and
\* holds more than one frame.
C14_Witness ==
    /\ tick.drawn /\ lastHandler = "currentTime"
    /\ tick.startIdx > 0 /\ tick.endIdx > tick.startIdx
    /\ canvas["correlation"] = TickView /\ canvas["pitch"] = TickView

\* C15: a panel whose canvas gives a 2D context is drawn on every tick that
\* resolves its indices, whether or not the other panels can be drawn.
C15_PanelsDrawnIndependently ==
    RenderTick(analysisData, currentTime, windowSize).drawn =>
        \A p \in contexts : <<p, "clear">> \in tick.ops /\ canvas[p] = TickView

\* C16: no render tick changes the AnalysisResult: every step of the graph
\* leaves analysisData, with all its arrays, as it was.
C16_TicksLeaveResultUnchanged == [][analysisData' = analysisData]_vars

\* C16 reached: after a change of the window size a tick has drawn and taken
\* the slices for the correlation, and the result is still one as installed.
C16_Witness ==
    /\ tick.drawn /\ tick.slice # {} /\ lastHandler = "windowSize"
    /\ analysisData \in {[d EXCEPT !.file = 1] : d \in GraphResults}

\* C17: on every tick that draws the window has a width, and timeToX sends
\* timeStart to PADDING and timeEnd to width - PADDING.
C17_TimeToXWellDefined ==
    tick.drawn =>
        /\ tick.timeEnd > tick.timeStart
        /\ timeToX(tick.timeStart, tick, CanvasWidth) = PADDING
        /\ timeToX(tick.timeEnd, tick, CanvasWidth) = CanvasWidth - PADDING

CorrelationShown == tick.drawn /\ <<"correlation", "label">> \in tick.ops

WithinUnitRange(f) == f.m = 0 \/ (f.e <= 0 /\ Abs(f.m) <= 2 ^ (-f.e))

\* C19: calculateCorrelation called with slices of different lengths, or
\* with empty slices, throws instead of returning a value.
C19_MismatchFailsFast ==
    (corr.called /\ (Len(pitchSlice) # Len(ampSlice) \/ Len(pitchSlice) = 0))
        => corr.threw

\* C20: for two non-empty sequences of equal length the value returned by
\* calculateCorrelation lies in [-1, 1].
C20_CorrelationWithinUnitRange ==
    (corr.called /\ Len(pitchSlice) = Len(ampSlice) /\ Len(pitchSlice) > 0)
        => ~corr.threw /\ WithinUnitRange(corr.value)

\* All entries of x are equal (a single entry included).
IsConstant(x) == \A i, j \in 1..Len(x) : x[i] = x[j]

\* C21: when either sequence has zero variance (all its entries equal), the
\* value returned is 0.
C21_ZeroVarianceGivesZero ==
    (/\ corr.called
     /\ Len(pitchSlice) = Len(ampSlice) /\ Len(pitchSlice) > 0
     /\ (IsConstant(pitchSlice) \/ IsConstant(ampSlice)))
        => ~corr.threw /\ corr.value = Number(0)

Entries(list) == {list[k] : k \in DOMAIN list}

\* i is a strict local maximum (minimum) of pd at or above 10 cents.
LocalMaximum(pd, i) ==
    pd[i] > pd[i - 1] /\ pd[i] > pd[i + 1] /\ Abs(pd[i]) >= 10
LocalMinimum(pd, i) ==
    pd[i] < pd[i - 1] /\ pd[i] < pd[i + 1] /\ Abs(pd[i]) >= 10

\* C23: in the generated result every interior index is in peaks iff it is a
\* strict local maximum of the finished pitchDeviation of magnitude at least
\* 10, and in troughs iff it is such a strict local minimum.
C23_ExtremaAreLocalExtrema ==
    analysisData.source = "mock" =>
        \A i \in 1..(N - 2) :
            /\ i \in Entries(analysisData.peaks)
                   <=> LocalMaximum(analysisData.pitchDeviation, i)
            /\ i \in Entries(analysisData.troughs)
                   <=> LocalMinimum(analysisData.pitchDeviation, i)

\* The number of vibrato cycles in the generated series, rounded.
MockCycles == (2 * MockFrames + Len(Wave)) \div (2 * Len(Wave))

\* C24: the generated result has oscillations = number of peaks, within one
\* of the number of vibrato cycles in the series, and not zero.
C24_OnePeakPerCycle ==
    analysisData.source = "mock" =>
        /\ analysisData.oscillations = Len(analysisData.peaks)
        /\ Abs(analysisData.oscillations - MockCycles) <= 1
        /\ analysisData.oscillations > 0

\* peaks and troughs are strictly increasing, share no index and hold neither
\* index 0 nor the last index of an n-frame series.
WellFormedExtrema(peaks, troughs, n) ==
    /\ \A j, k \in DOMAIN peaks : j < k => peaks[j] < peaks[k]
    /\ \A j, k \in DOMAIN troughs : j < k => troughs[j] < troughs[k]
    /\ Entries(peaks) \cap Entries(troughs) = {}
    /\ (Entries(peaks) \cup Entries(troughs)) \cap {0, n - 1} = {}

\* C25: in the generated result, and after every iteration of the scan that
\* builds it, peaks and troughs are strictly increasing, disjoint, and hold
\* neither index 0 nor index N - 1.
C25_ExtremaWellFormed ==
    analysisData.source = "mock" =>
        /\ WellFormedExtrema(analysisData.peaks, analysisData.troughs, N)
        /\ \A i \in 0..MockFrames :
               WellFormedExtrema(MockScan(i).peaks, MockScan(i).troughs,
                                 MockFrames)

\* C25 reached: the generated result is installed and drawn.
C25_Witness ==
    /\ analysisData.source = "mock" /\ N = MockFrames
    /\ MainContentMounted(Cur) /\ tick.drawn

\* C27: at most one animation-frame callback is pending at any time, and one
\* is pending only while isPlaying; the pending callback was created by the
\* render of the current isPlaying and isDragging (each change of either
\* cancels the one before), and a callback writes currentTime only in a
\* state with isPlaying and without isDragging.  A callback may be pending
\* during a drag that began while playing: it writes nothing when it runs.
C27_OneCurrentCallback ==
    /\ Len(animationFrames) <= 1
    /\ animationFrames # <<>> => isPlaying
    /\ \A i \in 1..Len(animationFrames) :
           /\ animationFrames[i].ref
           /\ animationFrames[i].isPlaying = isPlaying
           /\ animationFrames[i].isDragging = isDragging
    /\ (lastHandler = "updateTime" /\ timeChanged) => isPlaying /\ ~isDragging

\* C27 (witness): a drag began during playback and its render scheduled the
\* one pending callback.
C27_Witness ==
    /\ lastHandler = "handleProgressDragStart" /\ isPlaying /\ isDragging
    /\ Len(animationFrames) = 1

\* C27 (as stated): a callback is pending only in states with isPlaying and
\* without isDragging.
C27_PendingOnlyWhilePlayingUndragged ==
    animationFrames # <<>> => isPlaying /\ ~isDragging

\* C26: once the controls are shown and the audio element has loaded its
\* metadata, duration becomes the audio's duration and the listeners are
\* attached, with no step of the user needed.
C26_DurationLoadsUnaided ==
    (MainContentMounted(Cur) /\ audio.readyState # "nothing")
        ~> (duration = audio.duration /\ listeners # <<>>)

\* C28: isPlaying holds only while the audio element is not paused; the
\* ended handler leaves isPlaying false, currentTime at the duration and no
\* animation-frame callback pending; and playback that has reached the end
\* leads to that handler, unless the user pauses or seeks away first.
EndReached ==
    /\ isPlaying /\ ~audio.paused /\ audio.readyState = "canplay"
    /\ audio.currentTime = audio.duration

Stopped ==
    ~isPlaying /\ audio.paused /\ currentTime = duration /\ animationFrames = <<>>

UserHandlers ==
    {"togglePlayPause", "restart", "handleProgressDragStart",
     "handleProgressDrag"}

C29_AnalysisFinishes ==
    /\ [](pendingRuns = <<>> => ~isAnalyzing)
    /\ [](outcome \in {"ok", "failed"} => analysisData # NoData)
    /\ isAnalyzing ~> (~isAnalyzing /\ analysisData # NoData)

\* C29 (witness): a run whose request failed has finished.
C29_Witness ==
    /\ lastHandler = "analyzeAudio" /\ outcome = "failed"
    /\ ~isAnalyzing /\ pendingRuns = <<>> /\ analysisData.source = "mock"

\* C30: on a tick that draws with a window of positive width, every curve
\* point and marker of the pitch and volume panels lies inside the content
\* rectangle: x within [PADDING, width - PADDING] and y within
\* [PADDING, height - PADDING].
C30_PointsInsideContentRect ==
    (tick.drawn /\ tick.timeEnd > tick.timeStart) =>
        \A pt \in tick.points :
            LET height == IF pt.panel = "pitch" THEN HEIGHT_PITCH
                          ELSE HEIGHT_VOLUME
            IN  /\ PADDING <= pt.x /\ pt.x <= CanvasWidth - PADDING
                /\ PADDING <= pt.y /\ pt.y <= height - PADDING
====
